---- MODULE Spec2Model ----
(***************************************************************************)
(* State-machine model of no-database-roster-scraper.py (DPW roster        *)
(* scraper with SMS notifications): main()'s retry loop, process_roster(), *)
(* determine_base_date(), get_test_dates() and send_sms(), together with   *)
(* the configuration of config.py.                                         *)
(*                                                                         *)
(* The remote portal, the browser and the SMS gateway are the environment: *)
(* every wait.until() may time out, every WebDriver call inside main()'s   *)
(* try block may raise an exception other than TimeoutException, and the   *)
(* SMS API may fail.  driver.quit() is taken to return normally.           *)
(***************************************************************************)
EXTENDS Integers, Sequences, FiniteSets, TLC

VARIABLES
    pc,                  \* position of main(): "args", "loop", "get", "username",
                         \* "password", "landing", "nav", "cell", "classify",
                         \* "finish", "sleep" or "exit"
    date_arg,            \* args.date, line 388
    today0,              \* the calendar day on which the process started
    today,               \* the calendar day now (datetime.today())
    base_date,           \* line 389
    test_dates,          \* line 393
    max_retries,         \* line 396
    month_offsets,       \* the table imported at line 37
    portal,              \* which textContent values the portal holds: "usual" or "more"
    current_retry,       \* line 398
    driver,              \* the WebDriver of the current attempt (0: none yet)
    open_sessions,       \* browser sessions created and not yet quit
    sessions_opened,     \* number of setup_webdriver() calls that returned
    calendar_label,      \* month shown by the portal's current-month label
    clicks,              \* line 159: clicks on Next Month in this attempt, by
                         \* position of the target date in test_dates
    idx,                 \* position of process_roster's for loop in test_dates
    cell_index,          \* line 180
    cell_content,        \* line 188
    shifts,              \* line 237
    hours_worked,        \* line 238
    combined_message,    \* line 141
    not_finalised_found, \* line 142
    log,                 \* the records given to log_message, in order
    sent,                \* the calls of send_sms, in order
    slept,               \* seconds spent in time.sleep
    sleeps,              \* number of time.sleep calls
    exit_status,         \* "running", or the way the process ended
    outcomes             \* how each attempt ended, in order

vars == <<pc, date_arg, today0, today, base_date, test_dates, max_retries,
          month_offsets, portal,
          current_retry, driver, open_sessions, sessions_opened, calendar_label,
          clicks,
          idx, cell_index, cell_content, shifts, hours_worked,
          combined_message, not_finalised_found, log, sent,
          slept, sleeps, exit_status, outcomes>>

-----------------------------------------------------------------------------
(* Bounds of the model *)

\* max_retries is drawn from 1..MaxRetriesBound (the source sets 120).
MaxRetriesBound == 3

\* The process starts on one of NumDays consecutive days beginning at day
\* FirstDay (days are counted from Monday 2024-01-01 = 0; 329 = Mon 2024-11-25,
\* so the window holds every weekday and the November/December boundary).
FirstDay == 329
NumDays == 7

\* Explicit --date values: Thu 2024-10-31 and Fri 2025-01-31.
ExplicitDates == { <<"2", "0", "2", "4", "-", "1", "0", "-", "3", "1">>,
                   <<"2", "0", "2", "5", "-", "0", "1", "-", "3", "1">> }

-----------------------------------------------------------------------------
(* Program constants *)

retry_delay == 60

RECIPIENTS == [self |-> "+1234567890", wife |-> "+0987654321", mum |-> "+1122334455"]

MUM_SEND_DAYS == {"wed", "thu"}

-----------------------------------------------------------------------------
(* datetime: dates are day numbers, 0 = Monday 2024-01-01 *)

IsLeapYear(y) == y % 4 = 0 /\ (y % 100 # 0 \/ y % 400 = 0)

DaysInMonth(y, m) ==
    IF m = 2 THEN (IF IsLeapYear(y) THEN 29 ELSE 28)
    ELSE IF m \in {4, 6, 9, 11} THEN 30 ELSE 31

RECURSIVE YMD(_, _, _)
YMD(y, m, n) ==
    IF n >= DaysInMonth(y, m)
    THEN (IF m = 12 THEN YMD(y + 1, 1, n - DaysInMonth(y, m))
                    ELSE YMD(y, m + 1, n - DaysInMonth(y, m)))
    ELSE [year |-> y, month |-> m, day |-> n + 1]

\* datetime.date fields of day number n (n >= 0)
DateOf(n) == YMD(2024, 1, n)

\* the day number of the date y-m-d (y >= 2024)
RECURSIVE DayNumber(_, _, _)
DayNumber(y, m, d) ==
    IF m > 1 THEN DaysInMonth(y, m - 1) + DayNumber(y, m - 1, d)
    ELSE IF y > 2024 THEN DaysInMonth(y - 1, 12) + DayNumber(y - 1, 12, d)
    ELSE d - 1

\* date.weekday(): Monday is 0 and Sunday is 6
Weekday(n) == n % 7

\* strftime('%a').lower()
DayAbbr(n) == <<"mon", "tue", "wed", "thu", "fri", "sat", "sun">>[Weekday(n) + 1]

\* strftime("%B %Y"): the month and year of a date, as the label shows them
MonthLabel(n) == [month |-> DateOf(n).month, year |-> DateOf(n).year]

\* the label one month later (the effect of the portal's Next Month link)
NextMonthLabel(l) ==
    IF l.month = 12 THEN [month |-> 1, year |-> l.year + 1]
    ELSE [month |-> l.month + 1, year |-> l.year]

-----------------------------------------------------------------------------
(* Text: a string is a sequence of one-character strings *)

Whitespace == {" ", "\n", "\t"}

RECURSIVE LStrip(_)
LStrip(s) == IF s # <<>> /\ Head(s) \in Whitespace THEN LStrip(Tail(s)) ELSE s

RECURSIVE RStrip(_)
RStrip(s) ==
    IF s # <<>> /\ s[Len(s)] \in Whitespace THEN RStrip(SubSeq(s, 1, Len(s) - 1)) ELSE s

\* str.strip()
Strip(s) == RStrip(LStrip(s))

UpperCase == <<"A", "B", "C", "D", "E", "F", "G", "H", "I", "J", "K", "L", "M",
               "N", "O", "P", "Q", "R", "S", "T", "U", "V", "W", "X", "Y", "Z">>
LowerCase == <<"a", "b", "c", "d", "e", "f", "g", "h", "i", "j", "k", "l", "m",
               "n", "o", "p", "q", "r", "s", "t", "u", "v", "w", "x", "y", "z">>

LowerChar(c) ==
    IF \E i \in 1..Len(UpperCase) : UpperCase[i] = c
    THEN LowerCase[CHOOSE i \in 1..Len(UpperCase) : UpperCase[i] = c]
    ELSE c

\* str.lower()
Lower(s) == [i \in 1..Len(s) |-> LowerChar(s[i])]

\* sub in s
Contains(sub, s) ==
    \E i \in 0..(Len(s) - Len(sub)) : \A j \in 1..Len(sub) : s[i + j] = sub[j]

NBSP == <<"&", "n", "b", "s", "p", ";">>
NOT_FINALISED == <<"n", "o", "t", " ", "f", "i", "n", "a", "l", "i", "s", "e", "d">>

\* textContent values the portal may hold in a day cell
CellTexts ==
    { <<>>,
      <<" ", " ">>,
      NBSP,
      <<" ">> \o NBSP \o <<"\n">>,
      <<"N", "o", "t", " ", "F", "i", "n", "a", "l", "i", "s", "e", "d">>,
      NBSP \o <<" ">> \o NOT_FINALISED,
      <<"D", "0", "6", "0", "0", "-", "1", "4", "0", "0", " ", "(", "8", ")">>,
      <<"O", "F", "F">> }

\* IsNotRostered that knows the empty text only
IsNotRostered_EmptyOnly(c) == c = <<>>

\* line 195: not cell_content or cell_content == "&nbsp;"
IsNotRostered(c) == c = <<>> \/ c = NBSP

\* IsNotFinalised without the lower() of line 212
IsNotFinalised_CaseSensitive(c) == Contains(NOT_FINALISED, c)

\* line 212: "not finalised" in cell_content.lower()
IsNotFinalised(c) == Contains(NOT_FINALISED, Lower(c))

-----------------------------------------------------------------------------
(* Shift parsing, lines 236-261 *)

Digits == <<"0", "1", "2", "3", "4", "5", "6", "7", "8", "9">>

IsDigit(c) == \E i \in 1..Len(Digits) : Digits[i] = c

DigitValue(c) == (CHOOSE i \in 1..Len(Digits) : Digits[i] = c) - 1

RECURSIVE DecimalValue(_)
DecimalValue(s) ==
    IF s = <<>> THEN 0
    ELSE 10 * DecimalValue(SubSeq(s, 1, Len(s) - 1)) + DigitValue(s[Len(s)])

\* int(s): <<value>>, or <<>> where int raises ValueError.  Surrounding
\* whitespace and one sign are accepted; the rest must be one or more digits
\* (underscores between digits are not modelled).
ParseInt(s) ==
    LET t == Strip(s)
        signed == t # <<>> /\ Head(t) \in {"+", "-"}
        body == IF signed THEN Tail(t) ELSE t
    IN  IF body = <<>> \/ \E i \in 1..Len(body) : ~IsDigit(body[i])
        THEN <<>>
        ELSE <<(IF signed /\ Head(t) = "-" THEN -1 ELSE 1) * DecimalValue(body)>>

\* s.lstrip('0')
RECURSIVE LStripZeros(_)
LStripZeros(s) == IF s # <<>> /\ Head(s) = "0" THEN LStripZeros(Tail(s)) ELSE s

\* s or '0'
OrZero(s) == IF s = <<>> THEN <<"0">> ELSE s

\* s.split(sep) for a one-character separator
RECURSIVE Split(_, _)
Split(s, sep) ==
    IF \E i \in 1..Len(s) : s[i] = sep
    THEN LET i == CHOOSE k \in 1..Len(s) : s[k] = sep /\ \A j \in 1..(k - 1) : s[j] # sep
         IN  <<SubSeq(s, 1, i - 1)>> \o Split(SubSeq(s, i + 1, Len(s)), sep)
    ELSE <<s>>

\* s.replace(c, '') for a one-character c
RECURSIVE RemoveChar(_, _)
RemoveChar(s, c) ==
    IF s = <<>> THEN <<>>
    ELSE (IF Head(s) = c THEN <<>> ELSE <<Head(s)>>) \o RemoveChar(Tail(s), c)

BR == <<"<", "b", "r", "/", ">">>

\* s.replace('<br/>', '\n')
RECURSIVE ReplaceBr(_)
ReplaceBr(s) ==
    IF Len(s) < Len(BR) THEN s
    ELSE IF SubSeq(s, 1, Len(BR)) = BR
         THEN <<"\n">> \o ReplaceBr(SubSeq(s, Len(BR) + 1, Len(s)))
         ELSE <<Head(s)>> \o ReplaceBr(Tail(s))

\* lines 256-261: the record of the three converted fields, each <<value>>, or
\* <<>> where one of them raised ValueError (lines 250-252)
ShiftRecord(type, start, end, hours) ==
    IF start = <<>> \/ end = <<>> \/ hours = <<>>
    THEN <<>>
    ELSE <<[shift_type |-> type, shift_start |-> start[1], shift_end |-> end[1],
            hours |-> hours[1]]>>

\* lines 246-249: times.split('-') must give two parts
ParseFields(type, ends, hours_str) ==
    IF Len(ends) # 2 THEN <<>>
    ELSE ShiftRecord(type,
                     ParseInt(OrZero(LStripZeros(ends[1]))),
                     ParseInt(OrZero(LStripZeros(ends[2]))),
                     ParseInt(Strip(RemoveChar(hours_str, ")"))))

\* line 245: times_and_hours.split('(') must give two parts
ParseParts(type, parts) ==
    IF Len(parts) # 2 THEN <<>>
    ELSE ParseFields(type, Split(parts[1], "-"), parts[2])

\* lines 243-261 for one stripped, non-empty line: <<record>>, or <<>> where a
\* ValueError makes the line skipped
ParseLine(line) == ParseParts(Head(line), Split(Strip(Tail(line)), "("))

\* ParseLines that gives up at the first line it cannot convert
RECURSIVE ParseLines_StopAtBadLine(_)
ParseLines_StopAtBadLine(lines) ==
    IF lines = <<>> THEN <<>>
    ELSE IF Strip(Head(lines)) = <<>> THEN ParseLines_StopAtBadLine(Tail(lines))
    ELSE IF ParseLine(Strip(Head(lines))) = <<>> THEN <<>>
    ELSE ParseLine(Strip(Head(lines))) \o ParseLines_StopAtBadLine(Tail(lines))

\* lines 239-261: the records of the lines, in order
RECURSIVE ParseLines(_)
ParseLines(lines) ==
    IF lines = <<>> THEN <<>>
    ELSE (IF Strip(Head(lines)) = <<>> THEN <<>> ELSE ParseLine(Strip(Head(lines))))
         \o ParseLines(Tail(lines))

\* lines 236-237, 239-261: shifts
ParseShifts(c) == ParseLines(Split(ReplaceBr(c), "\n"))

\* lines 238, 255: hours_worked
RECURSIVE SumHours(_)
SumHours(parsed) ==
    IF parsed = <<>> THEN 0 ELSE Head(parsed).hours + SumHours(Tail(parsed))

-----------------------------------------------------------------------------
(* Cell texts for the classification and the shift parser *)

\* the decimal digits of n >= 0
RECURSIVE Decimal(_)
Decimal(n) == IF n < 10 THEN <<Digits[n + 1]>> ELSE Decimal(n \div 10) \o <<Digits[(n % 10) + 1]>>

\* n written as HHMM, four digits with leading zeros
HHMM(n) ==
    <<Digits[(n \div 1000) + 1], Digits[((n \div 100) % 10) + 1],
      Digits[((n \div 10) % 10) + 1], Digits[(n % 10) + 1]>>

\* the line the portal shows for a shift, as in the example of line 243
ShiftLine(type, start, end, hours) ==
    <<type>> \o HHMM(start) \o <<"-">> \o HHMM(end) \o <<" ", "(">> \o Decimal(hours) \o <<")">>

ShiftTypes == {"D", "N"}
ShiftTimes == {0, 30, 600, 1430}
ShiftHours == {0, 8, 10}

\* one-line cells, each a shift line in the form of line 243
WellFormedShifts ==
    { [shift_type |-> t, shift_start |-> a, shift_end |-> b, hours |-> h] :
        t \in ShiftTypes, a \in ShiftTimes, b \in ShiftTimes, h \in ShiftHours }

WellFormedText(r) == ShiftLine(r.shift_type, r.shift_start, r.shift_end, r.hours)

\* lines of a cell: two shift lines, then lines whose hours, start, end or
\* time range are no numbers, and a line without hours; with each line the
\* records lines 245-261 store for it
LineCases ==
    << [text |-> <<"D", "0", "6", "0", "0", "-", "1", "4", "0", "0", " ", "(", "8", ")">>,
        parsed |-> <<[shift_type |-> "D", shift_start |-> 600, shift_end |-> 1400, hours |-> 8]>>],
       [text |-> <<"N", "2", "2", "0", "0", "-", "0", "6", "0", "0", " ", "(", "1", "0", ")">>,
        parsed |-> <<[shift_type |-> "N", shift_start |-> 2200, shift_end |-> 600, hours |-> 10]>>],
       [text |-> <<"D", "0", "6", "0", "0", "-", "1", "4", "0", "0", " ", "(", "x", ")">>,
        parsed |-> <<>>],
       [text |-> <<"D", "0", "6", "a", "0", "-", "1", "4", "0", "0", " ", "(", "8", ")">>,
        parsed |-> <<>>],
       [text |-> <<"D", "0", "6", "0", "0", "-", "1", "4", ":", "0", "0", " ", "(", "8", ")">>,
        parsed |-> <<>>],
       [text |-> <<"D", "0", "6", "0", "0", " ", "1", "4", "0", "0", " ", "(", "8", ")">>,
        parsed |-> <<>>],
       [text |-> <<"O", "F", "F">>,
        parsed |-> <<>>] >>

\* the lines joined with the separator
RECURSIVE Join(_, _)
Join(lines, sep) ==
    IF lines = <<>> THEN <<>>
    ELSE IF Len(lines) = 1 THEN lines[1]
    ELSE lines[1] \o sep \o Join(Tail(lines), sep)

MaxLines == 3

\* choices of up to MaxLines lines
LineChoices == UNION { [1..n -> 1..Len(LineCases)] : n \in 1..MaxLines }

\* the separators of line 236
Separators == { <<"\n">>, BR }

\* cells of several lines
MultiLineCells ==
    { [choice |-> ch, text |-> Join([i \in 1..Len(ch) |-> LineCases[ch[i]].text], sep)] :
        ch \in LineChoices, sep \in Separators }

\* cell texts with the outcome of lines 195, 212 and 232 for each
ClassCases ==
    { [text |-> <<>>, outcome |-> "NotRostered"],
      [text |-> <<" ", " ">>, outcome |-> "NotRostered"],
      [text |-> <<"&", "n", "b", "s", "p", ";">>, outcome |-> "NotRostered"],
      [text |-> <<" ", "&", "n", "b", "s", "p", ";", "\n">>, outcome |-> "NotRostered"],
      [text |-> <<"N", "o", "t", " ", "F", "i", "n", "a", "l", "i", "s", "e", "d">>, outcome |-> "NotFinalized"],
      [text |-> <<"&", "n", "b", "s", "p", ";", " ", "n", "o", "t", " ", "f", "i", "n", "a", "l", "i", "s", "e", "d">>, outcome |-> "NotFinalized"],
      [text |-> <<"n", "o", "t", " ", "f", "i", "n", "a", "l", "i", "s", "e", "d", " ", "&", "n", "b", "s", "p", ";">>, outcome |-> "NotFinalized"],
      [text |-> <<"R", "o", "s", "t", "e", "r", " ", "N", "O", "T", " ", "F", "I", "N", "A", "L", "I", "S", "E", "D", " ", "y", "e", "t">>, outcome |-> "NotFinalized"],
      [text |-> <<"D", "0", "6", "0", "0", "-", "1", "4", "0", "0", " ", "(", "8", ")", " ", "n", "o", "t", " ", "f", "i", "n", "a", "l", "i", "s", "e", "d">>, outcome |-> "NotFinalized"],
      [text |-> <<"&", "n", "b", "s", "p", ";", "&", "n", "b", "s", "p", ";">>, outcome |-> "Rostered"],
      [text |-> <<"&", " ", "n", "b", "s", "p", ";">>, outcome |-> "Rostered"],
      [text |-> <<"n", "o", "t", " ", " ", "f", "i", "n", "a", "l", "i", "s", "e", "d">>, outcome |-> "Rostered"],
      [text |-> <<"n", "o", "t", " ", "f", "i", "n", "a", "l", "i", "z", "e", "d">>, outcome |-> "Rostered"],
      [text |-> <<"O", "F", "F">>, outcome |-> "Rostered"],
      [text |-> <<"D", "0", "6", "0", "0", "-", "1", "4", "0", "0", " ", "(", "8", ")">>, outcome |-> "Rostered"],
      [text |-> <<"?">>, outcome |-> "Rostered"] }

\* further textContent values of a day cell
MoreCellTexts ==
    CellTexts
    \cup { c.text : c \in ClassCases }
    \cup { WellFormedText(r) : r \in WellFormedShifts }
    \cup { c.text : c \in MultiLineCells }

\* lines 236-261 for every text a cell can hold, evaluated once
ShiftTable == [c \in {Strip(t) : t \in MoreCellTexts} |-> ParseShifts(c)]

\* the two portals: the one of the runs, and the one holding the further texts
PortalTexts(p) == IF p = "more" THEN MoreCellTexts ELSE CellTexts

\* The message lines composed at lines 196, 214 and 265: the fixed wording, the
\* target date written into it, and the cell text echoed by the "Hours" line.
NotRosteredMessage(d) == [kind |-> "Not rostered", date |-> <<d>>, text |-> <<>>]
NotFinalisedMessage(d) == [kind |-> "Not finalised", date |-> <<d>>, text |-> <<>>]
HoursMessage(d, c) == [kind |-> "Hours", date |-> <<d>>, text |-> Strip(c)]

\* The failure summaries of lines 464 and 505
RetryLimitMessage == [kind |-> "Retry limit", date |-> <<>>, text |-> <<>>]
ErrorMessage == [kind |-> "Script encountered an error", date |-> <<>>, text |-> <<>>]

\* a record given to log_message (date is <<>> where the code logs "")
LogRecord(level, event, content, date, retries) ==
    [level |-> level, event |-> event, sms_content |-> content,
     date |-> date, shift_start |-> 0, shift_end |-> 0, hours |-> 0,
     retry_attempts |-> retries]

\* lines 268-279: the record of a Rostered day
ShiftLogRecord(content, date, parsed) ==
    [level |-> "INFO", event |-> "SMS_SENT", sms_content |-> content,
     date |-> date,
     shift_start |-> IF parsed # <<>> THEN parsed[1].shift_start ELSE 0,
     shift_end |-> IF parsed # <<>> THEN parsed[Len(parsed)].shift_end ELSE 0,
     hours |-> SumHours(parsed),
     retry_attempts |-> 0]

-----------------------------------------------------------------------------
(* determine_base_date and get_test_dates *)

TODAY == <<"t", "o", "d", "a", "y">>
TOMORROW == <<"t", "o", "m", "o", "r", "r", "o", "w">>

\* values of --date in a run: the two tokens, explicit dates and a string
\* strptime rejects
DateArgs == {TODAY, TOMORROW, <<"3", "1", "/", "1", "0", "/", "2", "0", "2", "4">>} \cup ExplicitDates

\* further values of --date: other letter cases, fields without zero padding,
\* a day the month does not have, a month the year does not have, other text
MoreDateArgs ==
    DateArgs \cup { <<"T", "o", "d", "a", "y">>, <<"T", "O", "M", "O", "R", "R", "O", "W">>, <<"2", "0", "2", "4", "-", "1", "1", "-", "1">>,
                   <<"2", "0", "2", "4", "-", "0", "2", "-", "3", "0">>, <<"2", "0", "2", "4", "-", "1", "3", "-", "0", "1">>,
                   <<"y", "e", "s", "t", "e", "r", "d", "a", "y">>, <<"2", "0", "2", "4", "1", "0", "3", "1">> }

IsDigits(s) == s # <<>> /\ \A i \in 1..Len(s) : IsDigit(s[i])

\* the fields %m and %d of strptime: one or two digits in range (for %d also a
\* space and a digit)
MonthField(s) == Len(s) \in {1, 2} /\ IsDigits(s) /\ DecimalValue(s) \in 1..12
DayField(s) ==
    \/ Len(s) \in {1, 2} /\ IsDigits(s) /\ DecimalValue(s) \in 1..31
    \/ Len(s) = 2 /\ s[1] = " " /\ IsDigit(s[2]) /\ s[2] # "0"

\* Strptime that takes any day up to 31 in every month
Strptime_AnyDay(arg) ==
    LET p == Split(arg, "-")
    IN  IF /\ Len(p) = 3
           /\ Len(p[1]) = 4 /\ IsDigits(p[1]) /\ DecimalValue(p[1]) >= 1
           /\ MonthField(p[2])
           /\ DayField(p[3])
        THEN <<DayNumber(DecimalValue(p[1]), DecimalValue(p[2]), DecimalValue(Strip(p[3])))>>
        ELSE <<>>

\* line 341, datetime.strptime(date_str, '%Y-%m-%d').date(): <<day number>>, or
\* <<>> where ValueError is raised
Strptime(arg) ==
    LET p == Split(arg, "-")
    IN  IF /\ Len(p) = 3
           /\ Len(p[1]) = 4 /\ IsDigits(p[1]) /\ DecimalValue(p[1]) >= 1
           /\ MonthField(p[2])
           /\ DayField(p[3])
           /\ DecimalValue(Strip(p[3])) <= DaysInMonth(DecimalValue(p[1]), DecimalValue(p[2]))
        THEN <<DayNumber(DecimalValue(p[1]), DecimalValue(p[2]), DecimalValue(Strip(p[3])))>>
        ELSE <<>>

\* lines 335-344: sys.exit(1) is reached
InvalidDate(arg) == Lower(arg) \notin {TODAY, TOMORROW} /\ Strptime(arg) = <<>>

\* lines 335-341
determine_base_date(arg, now) ==
    IF Lower(arg) = TODAY THEN now
    ELSE IF Lower(arg) = TOMORROW THEN now + 1
    ELSE Strptime(arg)[1]

\* get_test_dates that plans the weekend from Saturday on as well
get_test_dates_FromSaturday(d) ==
    IF Weekday(d) \in {4, 5} THEN <<d + 1, d + 2>> ELSE <<d + 1>>

\* lines 360-373
get_test_dates(d) ==
    IF Weekday(d) = 4 THEN <<d + 1, d + 2>> ELSE <<d + 1>>

-----------------------------------------------------------------------------
(* send_sms, lines 78-103: one request for all recipients; an ApiException or *)
(* any other exception is printed and swallowed                              *)

send_sms(message, recipients) ==
    \E ok \in BOOLEAN :
        sent' = Append(sent, [message |-> message, recipients |-> recipients,
                              delivered |-> ok])

\* lines 479 and 506
FailureRecipients == <<RECIPIENTS.self, RECIPIENTS.wife>>

\* SuccessRecipients routed by the weekday of base_date rather than of today
SuccessRecipients_BaseDate(now) ==
    IF DayAbbr(base_date) \in MUM_SEND_DAYS
    THEN <<RECIPIENTS.self, RECIPIENTS.wife, RECIPIENTS.mum>>
    ELSE <<RECIPIENTS.self, RECIPIENTS.wife>>

\* lines 484-492
SuccessRecipients(now) ==
    IF DayAbbr(now) \in MUM_SEND_DAYS
    THEN <<RECIPIENTS.self, RECIPIENTS.wife, RECIPIENTS.mum>>
    ELSE <<RECIPIENTS.self, RECIPIENTS.wife>>

\* Quit that leaves the session open
Quit_Leak(open, d) == open

\* driver.quit()
Quit(open, d) == open \ {d}

\* RetryAllowed with the comparison off by one
RetryAllowed_OffByOne(retry) == retry <= max_retries

\* line 458
RetryAllowed(retry) == retry < max_retries

-----------------------------------------------------------------------------
(* The cell locator, lines 176-181 *)

\* month_offsets of the module offsets: for each month it lists, the number
\* of cells of the calendar grid before the first day of the month
OffsetTable == [m \in {10, 11, 12} |-> CASE m = 10 -> 1 [] m = 11 -> 4 [] m = 12 -> 6]

\* further tables: none of the months listed, a month left out, zero offsets
OffsetTables ==
    { OffsetTable,
      <<>>,
      [m \in {11} |-> 4],
      [m \in {1, 12} |-> 0],
      [m \in 1..12 |-> m % 7] }

\* line 179: month_offsets.get(month, 0)
Get(table, key, default) == IF key \in DOMAIN table THEN table[key] ELSE default

\* CellIndex without the offset
CellIndex_DayOnly(table, d) == DateOf(d).day

\* lines 177-180
CellIndex(table, d) == Get(table, DateOf(d).month, 0) + DateOf(d).day

-----------------------------------------------------------------------------
(* The state machine *)

Init ==
    /\ pc = "args"
    /\ date_arg \in DateArgs
    /\ today0 \in FirstDay..(FirstDay + NumDays - 1)
    /\ today = today0
    /\ base_date = 0
    /\ test_dates = <<>>
    /\ max_retries \in 1..MaxRetriesBound
    /\ month_offsets = OffsetTable
    /\ portal = "usual"
    /\ current_retry = 0
    /\ driver = 0
    /\ open_sessions = {}
    /\ sessions_opened = 0
    /\ calendar_label = [month |-> 0, year |-> 0]
    /\ clicks = <<>>
    /\ idx = 0
    /\ cell_index = 0
    /\ cell_content = <<>>
    /\ shifts = <<>>
    /\ hours_worked = 0
    /\ combined_message = <<>>
    /\ not_finalised_found = FALSE
    /\ log = <<>>
    /\ sent = <<>>
    /\ slept = 0
    /\ sleeps = 0
    /\ exit_status = "running"
    /\ outcomes = <<>>

inputVars == <<date_arg, today0, max_retries, month_offsets, portal>>
planVars == <<base_date, test_dates>>
sessionVars == <<driver, open_sessions, sessions_opened>>
shiftVars == <<shifts, hours_worked>>
rosterVars == <<calendar_label, clicks, idx, cell_index, cell_content, shiftVars,
               combined_message, not_finalised_found>>
sleepVars == <<slept, sleeps>>

\* sys.exit(1)
ExitFailure == pc' = "exit" /\ exit_status' = "nonzero"

\* lines 389-398: an invalid --date exits at line 344
ParseArguments ==
    /\ pc = "args"
    /\ IF InvalidDate(date_arg)
       THEN /\ ExitFailure
            /\ UNCHANGED planVars
       ELSE /\ base_date' = determine_base_date(date_arg, today)
            /\ test_dates' = get_test_dates(determine_base_date(date_arg, today))
            /\ pc' = "loop"
            /\ UNCHANGED exit_status
    /\ UNCHANGED <<inputVars, today, current_retry, sessionVars, rosterVars,
                   log, sent, sleepVars, outcomes>>

\* lines 400-402: setup_webdriver returns a new browser session
OpenSession ==
    /\ pc = "loop"
    /\ current_retry < max_retries
    /\ driver' = sessions_opened + 1
    /\ sessions_opened' = sessions_opened + 1
    /\ open_sessions' = open_sessions \cup {sessions_opened + 1}
    /\ pc' = "get"
    /\ UNCHANGED <<inputVars, today, planVars, current_retry, rosterVars,
                   log, sent, sleepVars, exit_status, outcomes>>

\* line 401: setup_webdriver raises (line 119); the call is outside the try
\* block of line 404, so the exception leaves main uncaught
OpenSessionFails ==
    /\ pc = "loop"
    /\ current_retry < max_retries
    /\ ExitFailure
    /\ outcomes' = Append(outcomes, "Uncaught")
    /\ UNCHANGED <<inputVars, today, planVars, current_retry, sessionVars,
                   rosterVars, log, sent, sleepVars>>

\* lines 405-408
LoadLoginPage ==
    /\ pc = "get"
    /\ pc' = "username"
    /\ UNCHANGED <<inputVars, today, planVars, current_retry, sessionVars,
                   rosterVars, log, sent, sleepVars, exit_status, outcomes>>

\* lines 411-417, 424-431: the field is present and filled
EnterCredential(here, next) ==
    /\ pc = here
    /\ pc' = next
    /\ UNCHANGED <<inputVars, today, planVars, current_retry, sessionVars,
                   rosterVars, log, sent, sleepVars, exit_status, outcomes>>

EnterUsername == EnterCredential("username", "password")
EnterPassword == EnterCredential("password", "landing")

\* AuthTimeout handled like a roster that is not finalised: a retry is counted
\* and the loop goes on
AuthTimeout_Retry(here) ==
    /\ pc = here
    /\ open_sessions' = Quit(open_sessions, driver)
    /\ current_retry' = current_retry + 1
    /\ outcomes' = Append(outcomes, "AuthFailed")
    /\ IF current_retry + 1 < max_retries
       THEN pc' = "sleep" /\ UNCHANGED exit_status
       ELSE ExitFailure
    /\ UNCHANGED <<inputVars, today, planVars, driver,
                   sessions_opened, rosterVars, log, sent, sleepVars>>

\* lines 418-421, 432-435, 444-447: TimeoutException; driver.quit(); sys.exit(1).
\* SystemExit is no Exception, so the handler of line 501 does not run.
AuthTimeout(here) ==
    /\ pc = here
    /\ open_sessions' = Quit(open_sessions, driver)
    /\ ExitFailure
    /\ outcomes' = Append(outcomes, "AuthFailed")
    /\ UNCHANGED <<inputVars, today, planVars, current_retry, driver,
                   sessions_opened, rosterVars, log, sent, sleepVars>>

UsernameTimeout == AuthTimeout("username")
PasswordTimeout == AuthTimeout("password")
LandingTimeout == AuthTimeout("landing")

\* The month the portal shows after login
LandingLabels == {MonthLabel(today), MonthLabel(test_dates[1])}

\* LandingLoaded with a message and a flag that outlive the attempt
LandingLoaded_KeepsMessage ==
    /\ pc = "landing"
    /\ calendar_label' \in LandingLabels
    /\ clicks' = [k \in DOMAIN test_dates |-> 0]
    /\ idx' = 1
    /\ cell_index' = 0
    /\ cell_content' = <<>>
    /\ shifts' = <<>>
    /\ hours_worked' = 0
    /\ pc' = "nav"
    /\ UNCHANGED <<inputVars, today, planVars, current_retry, sessionVars,
                   combined_message, not_finalised_found,
                   log, sent, sleepVars, exit_status, outcomes>>

\* lines 438-443 and 450, 141-142: the current-month label is present;
\* process_roster starts with an empty message and a cleared flag
LandingLoaded ==
    /\ pc = "landing"
    /\ calendar_label' \in LandingLabels
    /\ clicks' = [k \in DOMAIN test_dates |-> 0]
    /\ combined_message' = <<>>
    /\ not_finalised_found' = FALSE
    /\ idx' = 1
    /\ cell_index' = 0
    /\ cell_content' = <<>>
    /\ shifts' = <<>>
    /\ hours_worked' = 0
    /\ pc' = "nav"
    /\ UNCHANGED <<inputVars, today, planVars, current_retry, sessionVars,
                   log, sent, sleepVars, exit_status, outcomes>>

-----------------------------------------------------------------------------
(* process_roster, lines 144-300 *)

\* the for loop moves to the next target date, or process_roster returns
NextDate ==
    /\ idx' = idx + 1
    /\ pc' = IF idx < Len(test_dates) THEN "nav" ELSE "finish"

\* lines 148-152: the label already shows the target month
NavigateNotNeeded ==
    /\ pc = "nav"
    /\ calendar_label = MonthLabel(test_dates[idx])
    /\ pc' = "cell"
    /\ UNCHANGED <<inputVars, today, planVars, current_retry, sessionVars,
                   rosterVars, log, sent, sleepVars, exit_status, outcomes>>

\* NavigateNextMonth without the wait of lines 163-167 for the target label
NavigateNextMonth_NoWait ==
    /\ pc = "nav"
    /\ calendar_label # MonthLabel(test_dates[idx])
    /\ clicks' = [clicks EXCEPT ![idx] = @ + 1]
    /\ calendar_label' = NextMonthLabel(calendar_label)
    /\ pc' = "cell"
    /\ UNCHANGED <<inputVars, today, planVars, current_retry, sessionVars,
                   idx, cell_index, cell_content, shiftVars, combined_message,
                   not_finalised_found, log, sent, sleepVars, exit_status, outcomes>>

\* lines 152-171: one click on Next Month, and the label shows the target month
NavigateNextMonth ==
    /\ pc = "nav"
    /\ calendar_label # MonthLabel(test_dates[idx])
    /\ NextMonthLabel(calendar_label) = MonthLabel(test_dates[idx])
    /\ clicks' = [clicks EXCEPT ![idx] = @ + 1]
    /\ calendar_label' = NextMonthLabel(calendar_label)
    /\ pc' = "cell"
    /\ UNCHANGED <<inputVars, today, planVars, current_retry, sessionVars,
                   idx, cell_index, cell_content, shiftVars, combined_message,
                   not_finalised_found, log, sent, sleepVars, exit_status, outcomes>>

\* lines 156-158, 163-167, 172-174: TimeoutException, either because the Next
\* Month link is not clickable (no click), or because after the click the label
\* does not show the target month in time (the view did not react, or moved
\* one month, to another month than the target or too late); the date is skipped
NavigateTimeout ==
    /\ pc = "nav"
    /\ calendar_label # MonthLabel(test_dates[idx])
    /\ \/ UNCHANGED <<calendar_label, clicks>>
       \/ /\ clicks' = [clicks EXCEPT ![idx] = @ + 1]
          /\ \/ UNCHANGED calendar_label
             \/ calendar_label' = NextMonthLabel(calendar_label)
    /\ NextDate
    /\ UNCHANGED <<inputVars, today, planVars, current_retry, sessionVars,
                   cell_index, cell_content, shiftVars, combined_message,
                   not_finalised_found, log, sent, sleepVars, exit_status, outcomes>>

\* lines 177-189: the cell is present; its textContent is read and stripped
LocateCell ==
    /\ pc = "cell"
    /\ cell_index' = CellIndex(month_offsets, test_dates[idx])
    /\ \E t \in PortalTexts(portal) : cell_content' = Strip(t)
    /\ pc' = "classify"
    /\ UNCHANGED <<inputVars, today, planVars, current_retry, sessionVars,
                   calendar_label, clicks, idx, shiftVars, combined_message, not_finalised_found,
                   log, sent, sleepVars, exit_status, outcomes>>

\* CellTimeout taking a missing cell for a roster that is not finalised
CellTimeout_SetsFlag ==
    /\ pc = "cell"
    /\ cell_index' = CellIndex(month_offsets, test_dates[idx])
    /\ not_finalised_found' = TRUE
    /\ NextDate
    /\ UNCHANGED <<inputVars, today, planVars, current_retry, sessionVars,
                   calendar_label, clicks, cell_content, shiftVars, combined_message,
                   log, sent, sleepVars, exit_status, outcomes>>

\* lines 185-187, 190-192: TimeoutException; the date is skipped
CellTimeout ==
    /\ pc = "cell"
    /\ cell_index' = CellIndex(month_offsets, test_dates[idx])
    /\ NextDate
    /\ UNCHANGED <<inputVars, today, planVars, current_retry, sessionVars,
                   calendar_label, clicks, cell_content, shiftVars, combined_message,
                   not_finalised_found, log, sent, sleepVars, exit_status, outcomes>>

\* lines 195-211
ClassifyNotRostered ==
    /\ pc = "classify"
    /\ IsNotRostered(cell_content)
    /\ log' = Append(log, LogRecord("INFO", "SMS_SENT",
                     NotRosteredMessage(test_dates[idx]), <<test_dates[idx]>>, 0))
    /\ combined_message' = Append(combined_message, NotRosteredMessage(test_dates[idx]))
    /\ NextDate
    /\ UNCHANGED <<inputVars, today, planVars, current_retry, sessionVars,
                   calendar_label, clicks, cell_index, cell_content, shiftVars,
                   not_finalised_found, sent, sleepVars, exit_status, outcomes>>

\* ClassifyNotFinalised without the break of line 231
ClassifyNotFinalised_NoBreak ==
    /\ pc = "classify"
    /\ ~IsNotRostered(cell_content)
    /\ IsNotFinalised(cell_content)
    /\ log' = Append(log, LogRecord("WARNING", "SHIFT_NOT_FINALISED",
                     NotFinalisedMessage(test_dates[idx]), <<test_dates[idx]>>, 0))
    /\ combined_message' = Append(combined_message, NotFinalisedMessage(test_dates[idx]))
    /\ not_finalised_found' = TRUE
    /\ NextDate
    /\ UNCHANGED <<inputVars, today, planVars, current_retry, sessionVars,
                   calendar_label, clicks, cell_index, cell_content, shiftVars,
                   sent, sleepVars, exit_status, outcomes>>

\* lines 212-231: the flag is set and the loop is left (break)
ClassifyNotFinalised ==
    /\ pc = "classify"
    /\ ~IsNotRostered(cell_content)
    /\ IsNotFinalised(cell_content)
    /\ log' = Append(log, LogRecord("WARNING", "SHIFT_NOT_FINALISED",
                     NotFinalisedMessage(test_dates[idx]), <<test_dates[idx]>>, 0))
    /\ combined_message' = Append(combined_message, NotFinalisedMessage(test_dates[idx]))
    /\ not_finalised_found' = TRUE
    /\ pc' = "finish"
    /\ UNCHANGED <<inputVars, today, planVars, current_retry, sessionVars,
                   calendar_label, clicks, idx, cell_index, cell_content, shiftVars,
                   sent, sleepVars, exit_status, outcomes>>

\* lines 232-282: the lines of the cell are parsed; the cell text is echoed in
\* the message whatever its lines parse to
ClassifyRostered ==
    /\ pc = "classify"
    /\ ~IsNotRostered(cell_content)
    /\ ~IsNotFinalised(cell_content)
    /\ shifts' = ShiftTable[cell_content]
    /\ hours_worked' = SumHours(ShiftTable[cell_content])
    /\ combined_message' = Append(combined_message,
                                  HoursMessage(test_dates[idx], cell_content))
    /\ log' = Append(log, ShiftLogRecord(HoursMessage(test_dates[idx], cell_content),
                                         <<test_dates[idx]>>, ShiftTable[cell_content]))
    /\ NextDate
    /\ UNCHANGED <<inputVars, today, planVars, current_retry, sessionVars,
                   calendar_label, clicks, cell_index, cell_content, not_finalised_found,
                   sent, sleepVars, exit_status, outcomes>>

-----------------------------------------------------------------------------
(* main after process_roster, lines 453-499 *)

\* RetryPending without line 457
RetryPending_NoCount ==
    /\ pc = "finish"
    /\ not_finalised_found
    /\ RetryAllowed(current_retry + 1)
    /\ open_sessions' = Quit(open_sessions, driver)
    /\ outcomes' = Append(outcomes, "NotFinalized")
    /\ pc' = "sleep"
    /\ UNCHANGED <<inputVars, today, planVars, current_retry, driver, sessions_opened,
                   rosterVars, log, sent, sleepVars, exit_status>>

\* RetryPending that counts the retry twice
RetryPending_DoubleCount ==
    /\ pc = "finish"
    /\ not_finalised_found
    /\ RetryAllowed(current_retry + 1)
    /\ open_sessions' = Quit(open_sessions, driver)
    /\ current_retry' = current_retry + 2
    /\ outcomes' = Append(outcomes, "NotFinalized")
    /\ pc' = "sleep"
    /\ UNCHANGED <<inputVars, today, planVars, driver, sessions_opened,
                   rosterVars, log, sent, sleepVars, exit_status>>

\* lines 453-460: driver.quit(); the retry is counted and the loop goes on
RetryPending ==
    /\ pc = "finish"
    /\ not_finalised_found
    /\ RetryAllowed(current_retry + 1)
    /\ open_sessions' = Quit(open_sessions, driver)
    /\ current_retry' = current_retry + 1
    /\ outcomes' = Append(outcomes, "NotFinalized")
    /\ pc' = "sleep"
    /\ UNCHANGED <<inputVars, today, planVars, driver, sessions_opened,
                   rosterVars, log, sent, sleepVars, exit_status>>

\* line 460: time.sleep(retry_delay); midnight may pass once meanwhile
Sleep ==
    /\ pc = "sleep"
    /\ slept' = slept + retry_delay
    /\ sleeps' = sleeps + 1
    /\ today' \in {today} \cup (IF today = today0 THEN {today + 1} ELSE {})
    /\ pc' = "loop"
    /\ UNCHANGED <<inputVars, planVars, current_retry, sessionVars,
                   rosterVars, log, sent, exit_status, outcomes>>

\* lines 453-457, 461-480: driver.quit(); the retry limit is reached
RetryLimitReached ==
    /\ pc = "finish"
    /\ not_finalised_found
    /\ ~RetryAllowed(current_retry + 1)
    /\ open_sessions' = Quit(open_sessions, driver)
    /\ current_retry' = current_retry + 1
    /\ outcomes' = Append(outcomes, "NotFinalized")
    /\ log' = Append(log, LogRecord("ERROR", "RETRY_LIMIT_REACHED",
                                    RetryLimitMessage, <<>>, current_retry + 1))
    /\ send_sms(<<RetryLimitMessage>>, FailureRecipients)
    /\ ExitFailure
    /\ UNCHANGED <<inputVars, today, planVars, driver, sessions_opened,
                   rosterVars, sleepVars>>

\* Success without the test of line 482
Success_AlwaysSends ==
    /\ pc = "finish"
    /\ ~not_finalised_found
    /\ open_sessions' = Quit(open_sessions, driver)
    /\ outcomes' = Append(outcomes, "Success")
    /\ send_sms(combined_message, SuccessRecipients(today))
    /\ pc' = "exit"
    /\ exit_status' = "zero"
    /\ UNCHANGED <<inputVars, today, planVars, current_retry, driver,
                   sessions_opened, rosterVars, log, sleepVars>>

\* Success with a send_sms that lets a delivery failure out: the exception is
\* caught at line 501, which sends the failure summary and exits with 1
Success_Escalates ==
    /\ pc = "finish"
    /\ ~not_finalised_found
    /\ open_sessions' = Quit(open_sessions, driver)
    /\ pc' = "exit"
    /\ \/ /\ combined_message = <<>>
          /\ exit_status' = "zero"
          /\ outcomes' = Append(outcomes, "Success")
          /\ UNCHANGED <<sent, log>>
       \/ /\ combined_message # <<>>
          /\ exit_status' = "zero"
          /\ outcomes' = Append(outcomes, "Success")
          /\ sent' = Append(sent, [message |-> combined_message,
                                   recipients |-> SuccessRecipients(today),
                                   delivered |-> TRUE])
          /\ UNCHANGED log
       \/ /\ combined_message # <<>>
          /\ exit_status' = "nonzero"
          /\ outcomes' = Append(outcomes, "UnexpectedError")
          /\ sent' = sent \o <<[message |-> combined_message,
                                 recipients |-> SuccessRecipients(today),
                                 delivered |-> FALSE],
                                [message |-> <<ErrorMessage>>,
                                 recipients |-> FailureRecipients,
                                 delivered |-> TRUE]>>
          /\ log' = Append(log, LogRecord("ERROR", "UNEXPECTED_ERROR",
                                          ErrorMessage, <<>>, current_retry))
    /\ UNCHANGED <<inputVars, today, planVars, current_retry, driver,
                   sessions_opened, rosterVars, sleepVars>>

\* lines 453-456, 481-499, 523: driver.quit(); the message, if any, is sent
Success ==
    /\ pc = "finish"
    /\ ~not_finalised_found
    /\ open_sessions' = Quit(open_sessions, driver)
    /\ outcomes' = Append(outcomes, "Success")
    /\ IF combined_message # <<>>
       THEN send_sms(combined_message, SuccessRecipients(today))
       ELSE UNCHANGED sent
    /\ pc' = "exit"
    /\ exit_status' = "zero"
    /\ UNCHANGED <<inputVars, today, planVars, current_retry, driver,
                   sessions_opened, rosterVars, log, sleepVars>>

\* the places of the try block where a WebDriver call can raise an exception
\* other than TimeoutException (driver.get, send_keys, calendar_label.text,
\* click, find_element, get_attribute)
RaisingPlaces == {"get", "username", "password", "landing", "nav", "cell"}

\* lines 501-521
UnexpectedError ==
    /\ pc \in RaisingPlaces
    /\ open_sessions' = Quit(open_sessions, driver)
    /\ send_sms(<<ErrorMessage>>, FailureRecipients)
    /\ log' = Append(log, LogRecord("ERROR", "UNEXPECTED_ERROR",
                                    ErrorMessage, <<>>, current_retry))
    /\ outcomes' = Append(outcomes, "UnexpectedError")
    /\ ExitFailure
    /\ UNCHANGED <<inputVars, today, planVars, current_retry, driver,
                   sessions_opened, rosterVars, sleepVars>>

Next ==
    \/ ParseArguments
    \/ OpenSession
    \/ OpenSessionFails
    \/ LoadLoginPage
    \/ EnterUsername
    \/ UsernameTimeout
    \/ EnterPassword
    \/ PasswordTimeout
    \/ LandingLoaded
    \/ LandingTimeout
    \/ NavigateNotNeeded
    \/ NavigateNextMonth
    \/ NavigateTimeout
    \/ LocateCell
    \/ CellTimeout
    \/ ClassifyNotRostered
    \/ ClassifyNotFinalised
    \/ ClassifyRostered
    \/ RetryPending
    \/ Sleep
    \/ RetryLimitReached
    \/ Success
    \/ UnexpectedError

Spec == Init /\ [][Next]_vars

-----------------------------------------------------------------------------
(* Runs over further inputs *)

InputsRetries == 2

\* a Saturday whose target date lies in the next month
InputsDay == FirstDay + 5

\* One axis of the inputs is widened at a time: the values of --date, the
\* offset table, or the texts of the portal
InitInputs ==
    /\ pc = "args"
    /\ \/ date_arg \in MoreDateArgs /\ month_offsets = OffsetTable /\ portal = "usual"
       \/ date_arg \in DateArgs /\ month_offsets \in OffsetTables /\ portal = "usual"
       \/ date_arg = TODAY /\ month_offsets = OffsetTable /\ portal = "more"
    /\ today0 = InputsDay
    /\ today = today0
    /\ base_date = 0
    /\ test_dates = <<>>
    /\ max_retries = InputsRetries
    /\ current_retry = 0
    /\ driver = 0
    /\ open_sessions = {}
    /\ sessions_opened = 0
    /\ calendar_label = [month |-> 0, year |-> 0]
    /\ clicks = <<>>
    /\ idx = 0
    /\ cell_index = 0
    /\ cell_content = <<>>
    /\ shifts = <<>>
    /\ hours_worked = 0
    /\ combined_message = <<>>
    /\ not_finalised_found = FALSE
    /\ log = <<>>
    /\ sent = <<>>
    /\ slept = 0
    /\ sleeps = 0
    /\ exit_status = "running"
    /\ outcomes = <<>>

SpecInputs == InitInputs /\ [][Next]_vars

\* every step that is possible is taken in the end: the process is scheduled,
\* and each wait of the code ends after its timeout
FairSpec == Spec /\ WF_vars(Next)
FairInputs == SpecInputs /\ WF_vars(Next)

-----------------------------------------------------------------------------
(* Properties *)

Last(s) == s[Len(s)]

\* the send_sms calls that carry a failure summary, and the others
FailureSends ==
    {i \in DOMAIN sent : sent[i].message \in {<<RetryLimitMessage>>, <<ErrorMessage>>}}
RosterSends == DOMAIN sent \ FailureSends

LogEvents(e) == {i \in DOMAIN log : log[i].event = e}

AllNotFinalized == \A i \in DOMAIN outcomes : outcomes[i] = "NotFinalized"

\* C1: once max_retries attempts have all ended NotFinalized the process has
\* exited with a non-zero status, the retry counter equals max_retries, exactly
\* one RETRY_LIMIT_REACHED record was logged and it carries retry_attempts =
\* max_retries, exactly one failure notification was handed to send_sms in the
\* run, and no further browser session was opened.
C1_RetryLimit ==
    (Len(outcomes) = max_retries /\ AllNotFinalized) =>
        /\ pc = "exit"
        /\ exit_status = "nonzero"
        /\ current_retry = max_retries
        /\ Cardinality(LogEvents("RETRY_LIMIT_REACHED")) = 1
        /\ \A i \in LogEvents("RETRY_LIMIT_REACHED") : log[i].retry_attempts = max_retries
        /\ Len(sent) = 1
        /\ sent[1].message = <<RetryLimitMessage>>
        /\ sessions_opened = max_retries
        /\ sleeps = max_retries - 1

C1_Witness ==
    /\ max_retries = 3
    /\ Len(outcomes) = 3
    /\ AllNotFinalized

\* C2: a step taken when process_roster has returned without the not-finalised
\* flag (in attempt K, 1 <= K <= max_retries) ends the run successfully: the
\* session is closed, the accumulated message is sent once if it is not empty
\* and nothing is sent if it is empty, no failure notification exists, no
\* session is opened, and no step is ever taken after the exit.
C2_SuccessTerminates ==
    [][ /\ pc # "exit"
        /\ (pc = "finish" /\ ~not_finalised_found) =>
              /\ sessions_opened \in 1..max_retries
              /\ sent = <<>>
              /\ pc' = "exit"
              /\ exit_status' = "zero"
              /\ open_sessions' = {}
              /\ sessions_opened' = sessions_opened
              /\ current_retry' = current_retry
              /\ IF combined_message # <<>>
                 THEN /\ Len(sent') = 1
                      /\ sent'[1].message = combined_message
                 ELSE sent' = <<>>
      ]_vars

C2_Witness ==
    /\ exit_status = "zero"
    /\ sessions_opened = 2
    /\ Len(sent) = 1
    /\ sent[1].message = combined_message
    /\ Len(combined_message) = 2

\* C3: every run that ended by an authentication timeout, by the retry limit
\* or by an exception caught at line 501 has handed a failure summary addressed
\* to exactly the primary and secondary recipients to send_sms.
C3_EveryFailureNotifies ==
    ( /\ exit_status = "nonzero"
      /\ outcomes # <<>>
      /\ Last(outcomes) \in {"AuthFailed", "NotFinalized", "UnexpectedError"} ) =>
        \E i \in FailureSends : sent[i].recipients = <<"+1234567890", "+0987654321">>

\* C4: a step that ends an attempt by an authentication timeout is taken while
\* authenticating (before process_roster runs), closes the session, leaves the
\* retry counter, the sleeps, the roster state, the log and the sent messages
\* as they were, opens no session and exits with a non-zero status; no step is
\* ever taken after the exit.
C4_AuthFailureFatal ==
    [][ /\ pc # "exit"
        /\ (Len(outcomes') > Len(outcomes) /\ Last(outcomes') = "AuthFailed") =>
              /\ pc \in {"username", "password", "landing"}
              /\ pc' = "exit"
              /\ exit_status' = "nonzero"
              /\ open_sessions' = {}
              /\ current_retry' = current_retry
              /\ sleeps' = sleeps
              /\ slept' = slept
              /\ sessions_opened' = sessions_opened
              /\ UNCHANGED <<rosterVars, log>>
      ]_vars

C4_Witness ==
    /\ Len(outcomes) = 2
    /\ Last(outcomes) = "AuthFailed"
    /\ current_retry = 1
    /\ pc = "exit"

\* C5: every run ended by an exception other than TimeoutException, raised
\* where the session is opened or anywhere later in the attempt, has closed the
\* session, sent exactly one failure notification to the primary and secondary
\* recipients, logged one UNEXPECTED_ERROR record, and exited with a non-zero
\* status with the retry counter unchanged.
C5_UnexpectedCaught ==
    (outcomes # <<>> /\ Last(outcomes) \in {"UnexpectedError", "Uncaught"}) =>
        /\ pc = "exit"
        /\ exit_status = "nonzero"
        /\ open_sessions = {}
        /\ Len(sent) = 1
        /\ sent[1].message = <<ErrorMessage>>
        /\ sent[1].recipients = <<"+1234567890", "+0987654321">>
        /\ Cardinality(LogEvents("UNEXPECTED_ERROR")) = 1
        /\ current_retry = Len(outcomes) - 1

\* C6: at most one browser session is open; none is open before the first
\* attempt, when the loop is about to open one, during the retry sleep, or
\* after the process has exited; during an attempt the open one is the
\* attempt's own.
C6_OneSession ==
    /\ Cardinality(open_sessions) <= 1
    /\ pc \in {"args", "loop", "sleep", "exit"} => open_sessions = {}
    /\ pc \notin {"args", "loop", "sleep", "exit"} => open_sessions = {sessions_opened}

C6_Witness ==
    /\ pc = "sleep"
    /\ sessions_opened = 2
    /\ open_sessions = {}

\* C7 as stated: when process_roster has returned with the not-finalised flag
\* and the retry counter held at that moment is below max_retries, the counter
\* is incremented and the run goes on to sleep; the run fails only if the
\* counter held at that moment had reached max_retries.
C7_Original ==
    [][ (pc = "finish" /\ not_finalised_found) =>
            IF current_retry < max_retries
            THEN current_retry' = current_retry + 1 /\ pc' = "sleep"
            ELSE pc' = "exit" /\ exit_status' = "nonzero"
      ]_vars

\* C7 amended: when process_roster has returned with the not-finalised flag the
\* session is closed and the counter is incremented first; if the incremented
\* counter is below max_retries the run sleeps retry_delay seconds exactly once
\* and then returns to the head of the loop with no session open, and otherwise
\* it fails with the RETRY_LIMIT_REACHED record.
C7_RetryDecision ==
    [][ /\ (pc = "finish" /\ not_finalised_found) =>
              /\ current_retry' = current_retry + 1
              /\ open_sessions' = {}
              /\ IF current_retry + 1 < max_retries
                 THEN /\ pc' = "sleep"
                      /\ exit_status' = "running"
                      /\ UNCHANGED <<log, sent, sleeps, slept>>
                 ELSE /\ pc' = "exit"
                      /\ exit_status' = "nonzero"
                      /\ LogEvents("RETRY_LIMIT_REACHED")' = {Len(log) + 1}
        /\ pc = "sleep" =>
              /\ pc' = "loop"
              /\ sleeps' = sleeps + 1
              /\ slept' = slept + 60
              /\ UNCHANGED <<current_retry, open_sessions, sessions_opened>>
        /\ pc' = "sleep" => (pc = "finish" /\ not_finalised_found)
      ]_vars

C7_Witness ==
    /\ pc = "get"
    /\ sessions_opened = 2
    /\ current_retry = 1
    /\ sleeps = 1
    /\ slept = 60

\* C8: while target dates are being processed the not-finalised flag is clear;
\* a NotFinalized classification sets it and ends process_roster at once,
\* whatever was accumulated before; and from there the attempt closes its
\* session and goes to the retry decision, sending no roster message and never
\* ending successfully.
C8_EarlyExit ==
    /\ [](pc \in {"nav", "cell", "classify"} => ~not_finalised_found)
    /\ [][ /\ ( /\ pc = "classify"
                /\ cell_content \notin {<<>>, NBSP}
                /\ Contains(NOT_FINALISED, Lower(cell_content)) ) =>
                  /\ not_finalised_found'
                  /\ pc' = "finish"
                  /\ idx' = idx
           /\ (pc = "finish" /\ not_finalised_found) =>
                  /\ pc' \in {"sleep", "exit"}
                  /\ exit_status' # "zero"
                  /\ RosterSends' = {}
                  /\ Last(outcomes') = "NotFinalized"
         ]_vars

C8_Witness ==
    /\ pc = "sleep"
    /\ not_finalised_found
    /\ Len(test_dates) = 2
    /\ idx = 1

\* C9: a step taken at the navigation or at the cell lookup of a target date
\* either goes on with that date, or is an exception caught at line 501, or
\* skips the date: then the message, the flag, the retry counter, the log and
\* the sent messages are unchanged, the run is still going, and the loop is at
\* the next target date (or process_roster returns after the last one).
C9_SkipIsLocal ==
    [][ (pc \in {"nav", "cell"}) =>
            \/ pc = "nav" /\ pc' = "cell"
            \/ pc = "cell" /\ pc' = "classify"
            \/ pc' = "exit" /\ Last(outcomes') = "UnexpectedError"
            \/ /\ idx' = idx + 1
               /\ pc' = IF idx < Len(test_dates) THEN "nav" ELSE "finish"
               /\ exit_status' = "running"
               /\ UNCHANGED <<combined_message, not_finalised_found, current_retry,
                              log, sent, outcomes, open_sessions>>
      ]_vars

C9_Witness ==
    /\ exit_status = "zero"
    /\ Len(test_dates) = 2
    /\ Len(combined_message) = 1
    /\ combined_message[1].date = <<test_dates[2]>>
    /\ Len(sent) = 1

\* C10: every roster message was sent to primary, secondary and tertiary, in
\* that order, if the weekday of the sending is in MUM_SEND_DAYS, and to
\* primary and secondary otherwise; every failure summary was sent to primary
\* and secondary.
C10_Routing ==
    /\ \A i \in RosterSends :
          sent[i].recipients =
              IF \/ Weekday(today) = 2 /\ "wed" \in MUM_SEND_DAYS
                 \/ Weekday(today) = 3 /\ "thu" \in MUM_SEND_DAYS
              THEN <<"+1234567890", "+0987654321", "+1122334455">>
              ELSE <<"+1234567890", "+0987654321">>
    /\ \A i \in FailureSends :
          sent[i].recipients = <<"+1234567890", "+0987654321">>

C10_Witness ==
    /\ RosterSends # {}
    /\ Len(sent[1].recipients) = 3
    /\ Weekday(base_date) \notin {2, 3}

-----------------------------------------------------------------------------
(* The Thursday scenario *)

\* the reference date is a Thursday and the cell read in the first attempt
\* holds the placeholder
ThursdayPlaceholder ==
    /\ pc \in {"classify", "finish", "exit"}
    /\ Weekday(base_date) = 3
    /\ current_retry = 0
    /\ cell_content = NBSP

\* what a Thursday run with the placeholder does, up to the recipients
ThursdayRun ==
    /\ test_dates = <<base_date + 1>>
    /\ Weekday(test_dates[1]) = 4
    /\ sessions_opened = 1
    /\ sleeps = 0
    /\ ~not_finalised_found
    /\ LogEvents("SHIFT_NOT_FINALISED") = {}
    /\ LogEvents("RETRY_LIMIT_REACHED") = {}
    /\ pc = "classify" => combined_message = <<>> /\ sent = <<>>
    /\ pc = "finish" =>
          /\ combined_message = <<[kind |-> "Not rostered", date |-> <<base_date + 1>>,
                                   text |-> <<>>]>>
          /\ sent = <<>>
    /\ pc = "exit" =>
          /\ exit_status = "zero"
          /\ outcomes = <<"Success">>
          /\ Len(sent) = 1
          /\ sent[1].message = <<[kind |-> "Not rostered", date |-> <<base_date + 1>>,
                                  text |-> <<>>]>>

ThreeRecipients == <<RECIPIENTS.self, RECIPIENTS.wife, RECIPIENTS.mum>>
TwoRecipients == <<RECIPIENTS.self, RECIPIENTS.wife>>

\* C11 as stated: a run whose reference date is a Thursday, be it today or
\* given with --date, and whose Friday cell holds "&nbsp;" makes one attempt,
\* composes the one line "Not rostered" for the Friday, triggers no retry, and
\* sends the line once, to three recipients if Thursday is in MUM_SEND_DAYS and
\* to two otherwise.
C11_Original ==
    ThursdayPlaceholder =>
        /\ ThursdayRun
        /\ pc = "exit" =>
              sent[1].recipients =
                  IF "thu" \in MUM_SEND_DAYS THEN ThreeRecipients ELSE TwoRecipients

\* C11: a run whose reference date is a Thursday, be it today or given with
\* --date, and whose Friday cell holds "&nbsp;" makes one attempt, composes the
\* one line "Not rostered" for the Friday, triggers no retry, and sends the
\* line once, to three recipients if the weekday of the day of the sending is
\* in MUM_SEND_DAYS and to two otherwise, whatever the reference date.
C11_ThursdayScenario ==
    ThursdayPlaceholder =>
        /\ ThursdayRun
        /\ pc = "exit" =>
              sent[1].recipients =
                  IF DayAbbr(today) \in MUM_SEND_DAYS THEN ThreeRecipients ELSE TwoRecipients

C11_Witness ==
    /\ ThursdayPlaceholder
    /\ pc = "exit"
    /\ date_arg \in ExplicitDates
    /\ sent[1].recipients = TwoRecipients

-----------------------------------------------------------------------------
(* Classification *)

\* the Rostered cases that hold no valid shift line
NoShiftCases ==
    {c \in ClassCases : c.outcome = "Rostered" /\ c.text # ShiftLine("D", 600, 1400, 8)}

\* the step that classifies the text c.text does what the outcome c.outcome asks
ClassifiedAs(c) ==
    /\ c.outcome = "NotRostered" =>
          /\ combined_message' = Append(combined_message,
                 [kind |-> "Not rostered", date |-> <<test_dates[idx]>>, text |-> <<>>])
          /\ UNCHANGED <<not_finalised_found, shifts, hours_worked>>
          /\ idx' = idx + 1
    /\ c.outcome = "NotFinalized" =>
          /\ combined_message' = Append(combined_message,
                 [kind |-> "Not finalised", date |-> <<test_dates[idx]>>, text |-> <<>>])
          /\ not_finalised_found'
          /\ UNCHANGED <<shifts, hours_worked>>
          /\ pc' = "finish"
    /\ c.outcome = "Rostered" =>
          /\ combined_message' = Append(combined_message,
                 [kind |-> "Hours", date |-> <<test_dates[idx]>>, text |-> cell_content])
          /\ UNCHANGED not_finalised_found
          /\ idx' = idx + 1
          /\ Last(log').event = "SMS_SENT"
          /\ Last(log').level = "INFO"
          /\ hours_worked' = Last(log').hours
          /\ c \in NoShiftCases => shifts' = <<>> /\ hours_worked' = 0

\* C12: every stripped cell text is classified, and by the first rule that
\* matches: the empty text and exactly "&nbsp;" are NotRostered; otherwise a
\* text that contains "not finalised" in any letter case is NotFinalized, also
\* when it contains the placeholder; every other text is Rostered, and such a
\* text without a valid shift line gets an empty record list and 0 hours, is
\* no error, and still adds its message to the accumulated text.
C12_Classification ==
    /\ (pc = "classify") ~> (pc # "classify")
    /\ [][ (pc = "classify") =>
              /\ Len(log') = Len(log) + 1
              /\ exit_status' = "running"
              /\ \A c \in ClassCases : Strip(c.text) = cell_content => ClassifiedAs(c)
         ]_vars

C12_Witness ==
    /\ portal = "more"
    /\ pc = "finish"
    /\ cell_content = NBSP \o <<" ">> \o NOT_FINALISED
    /\ not_finalised_found
    /\ Last(combined_message).kind = "Not finalised"

-----------------------------------------------------------------------------
(* The shift parser *)

\* the step that classifies a cell as Rostered
RosteredStep ==
    /\ pc = "classify"
    /\ Len(combined_message') = Len(combined_message) + 1
    /\ Last(combined_message').kind = "Hours"

\* C13: a cell that holds one well-formed shift line <type><HHMM>-<HHMM>
\* (<hours>), with any digits in the two HHMM fields, 0000 included, is parsed
\* to exactly one record: its type is the first character, and its start, end
\* and hours are the numbers of the three fields.
C13_WellFormedParses ==
    [][ RosteredStep =>
            \A r \in WellFormedShifts :
                cell_content = WellFormedText(r) =>
                    shifts' = <<r>> /\ hours_worked' = r.hours
      ]_vars

-----------------------------------------------------------------------------
(* The date plan *)

\* the plan of the reference date: Saturday and Sunday after a Friday, the
\* next day after any other day
IsPlanOf(plan, d) ==
    IF Weekday(d) = 4
    THEN /\ Len(plan) = 2
         /\ plan[1] = d + 1 /\ Weekday(plan[1]) = 5
         /\ plan[2] = d + 2 /\ Weekday(plan[2]) = 6
    ELSE /\ Len(plan) = 1
         /\ plan[1] = d + 1

\* the run ended at line 344, before a plan was made
RejectedAtStart == pc = "exit" /\ outcomes = <<>>

\* C14: the plan depends on the reference date alone: <<date + 1, date + 2>>
\* for a Friday and <<date + 1>> for every other weekday, Saturday and Sunday
\* included; it is computed once, and every attempt walks through the same
\* plan from its first date, in order.
C14_DatePlan ==
    /\ []((pc # "args" /\ ~RejectedAtStart) =>
            /\ IsPlanOf(test_dates, base_date)
            /\ pc \in {"nav", "cell", "classify"} => idx \in 1..Len(test_dates)
            /\ \A i \in DOMAIN combined_message :
                  \E k \in 1..Len(test_dates) :
                      /\ combined_message[i].date = <<test_dates[k]>>
                      /\ k >= i
                      /\ k <= idx
            /\ \A i, j \in DOMAIN combined_message :
                  i < j => combined_message[i].date[1] < combined_message[j].date[1])
    /\ [][ /\ pc # "args" => UNCHANGED <<base_date, test_dates>>
           /\ pc = "landing" /\ pc' = "nav" => idx' = 1
           /\ pc \in {"nav", "cell", "classify"} /\ idx' # idx => idx' = idx + 1
         ]_vars

C14_Witness ==
    /\ Weekday(base_date) = 4
    /\ current_retry = 1
    /\ pc = "classify"
    /\ idx = 2
    /\ test_dates = <<base_date + 1, base_date + 2>>

-----------------------------------------------------------------------------
(* The cell locator *)

\* the month of the target date is in the offset table
MonthListed == DateOf(test_dates[idx]).month \in DOMAIN month_offsets

\* C15: the index of the cell looked up for a target date is the offset of the
\* month plus the day for a month the offset table lists, and the day alone
\* for a month it does not list; a month that is not listed does not make the
\* lookup fail: the cell is waited for as for any other date.
C15_CellIndex ==
    [][ (pc = "cell" /\ outcomes' = outcomes) =>
            /\ pc' \in {"classify", "nav", "finish"}
            /\ exit_status' = "running"
            /\ MonthListed =>
                  cell_index' = month_offsets[DateOf(test_dates[idx]).month]
                                + DateOf(test_dates[idx]).day
            /\ ~MonthListed => cell_index' = DateOf(test_dates[idx]).day
      ]_vars

C15_Witness ==
    /\ pc = "classify"
    /\ DOMAIN month_offsets = {11}
    /\ DateOf(test_dates[idx]).month = 12
    /\ cell_index = DateOf(test_dates[idx]).day

-----------------------------------------------------------------------------
(* The --date argument *)

\* values of --date that are no token and no date: another notation, a day
\* the month does not have, a month the year does not have, a word, digits
\* without hyphens
RejectedArgs ==
    { <<"3", "1", "/", "1", "0", "/", "2", "0", "2", "4">>,
      <<"2", "0", "2", "4", "-", "0", "2", "-", "3", "0">>,
      <<"2", "0", "2", "4", "-", "1", "3", "-", "0", "1">>,
      <<"y", "e", "s", "t", "e", "r", "d", "a", "y">>,
      <<"2", "0", "2", "4", "1", "0", "3", "1">> }

-----------------------------------------------------------------------------
(* Delivery failures *)

\* a message handed to send_sms in this step was not delivered
DeliveryFails == \E i \in DOMAIN sent' \ DOMAIN sent : ~sent'[i].delivered

-----------------------------------------------------------------------------
(* The log *)

\* a step that ends an attempt (the orchestrator goes to Success, RetryPending
\* or Failed), and a step that classifies a target date
AttemptEnds == outcomes' # outcomes
Classifies == pc = "classify"

\* C18: every step that ends an attempt, the failure of the authentication and
\* the step to RetryPending included, and every classification of a target
\* date appends exactly one record to the log, no step appends more than one,
\* and the record carries the retry count of the moment.
C18_OneRecordPerEvent ==
    [][ /\ Len(log') \in {Len(log), Len(log) + 1}
        /\ (AttemptEnds \/ Classifies) =>
              /\ Len(log') = Len(log) + 1
              /\ Last(log').retry_attempts = current_retry'
      ]_vars

-----------------------------------------------------------------------------
(* Cells of several lines *)

\* the records of the chosen lines, in the order of the lines
RECURSIVE ExpectedShifts(_)
ExpectedShifts(choice) ==
    IF choice = <<>> THEN <<>>
    ELSE LineCases[Head(choice)].parsed \o ExpectedShifts(Tail(choice))

\* the hours of the chosen lines that have a record
RECURSIVE ExpectedHours(_)
ExpectedHours(choice) ==
    IF choice = <<>> THEN 0
    ELSE (IF LineCases[Head(choice)].parsed = <<>> THEN 0
          ELSE LineCases[Head(choice)].parsed[1].hours)
         + ExpectedHours(Tail(choice))

\* C19: of a Rostered cell of several lines, every line whose time range,
\* start, end or hours cannot be converted is left out as a whole, every other
\* line has its record, the records are in the order of their lines, and the
\* hours of the day are the sum of the hours of the stored records.
C19_MultiLine ==
    [][ RosteredStep =>
            \A c \in MultiLineCells :
                cell_content = c.text =>
                    /\ shifts' = ExpectedShifts(c.choice)
                    /\ hours_worked' = ExpectedHours(c.choice)
                    /\ Last(log').hours = ExpectedHours(c.choice)
                    /\ \A i \in DOMAIN shifts' :
                          DOMAIN shifts'[i] = {"shift_type", "shift_start", "shift_end", "hours"}
      ]_vars

C19_Witness ==
    /\ pc = "finish"
    /\ cell_content = Join(<<LineCases[1].text, LineCases[3].text, LineCases[2].text>>, BR)
    /\ shifts = LineCases[1].parsed \o LineCases[2].parsed
    /\ hours_worked = 18

-----------------------------------------------------------------------------
(* Termination *)

\* C20: with every wait ending after its timeout, every run ends. The retry
\* counter starts at 0, changes only by one step up and only when an attempt
\* ends NotFinalized, and never exceeds max_retries; at most max_retries
\* sessions are opened in a run, and between two openings the process sleeps
\* exactly once, for retry_delay seconds.
C20_Terminates ==
    /\ current_retry = 0
    /\ <>(pc = "exit")
    /\ [](/\ current_retry \in 0..max_retries
          /\ sessions_opened \in 0..max_retries
          /\ slept = sleeps * retry_delay)
    /\ [][ /\ current_retry' # current_retry =>
                 /\ current_retry' = current_retry + 1
                 /\ Len(outcomes') = Len(outcomes) + 1
                 /\ Last(outcomes') = "NotFinalized"
           /\ (Len(outcomes') = Len(outcomes) + 1 /\ Last(outcomes') = "NotFinalized") =>
                 current_retry' = current_retry + 1
           /\ sessions_opened' # sessions_opened =>
                 /\ sessions_opened' = sessions_opened + 1
                 /\ sleeps = sessions_opened
           /\ sleeps' # sleeps =>
                 /\ sleeps' = sleeps + 1
                 /\ sleeps' = sessions_opened
         ]_vars

C20_Witness ==
    /\ pc = "exit"
    /\ max_retries = 3
    /\ sessions_opened = 3
    /\ sleeps = 2
    /\ slept = 2 * retry_delay
    /\ current_retry = 2
    /\ exit_status = "zero"

-----------------------------------------------------------------------------
(* The message of an attempt *)

InAttempt == pc \in {"nav", "cell", "classify", "finish"}

\* the lines of a message are lines of target dates, one per date at most and
\* in the order of the plan, and none of them is a "Not finalised" line
LinesOfPlan(message) ==
    /\ \A i \in DOMAIN message :
          /\ message[i].kind \in {"Not rostered", "Hours"}
          /\ \E k \in DOMAIN test_dates : message[i].date = <<test_dates[k]>>
    /\ \A i, j \in DOMAIN message :
          i < j => message[i].date[1] < message[j].date[1]

\* the lines of the message are the contents of the records logged last
LoggedLast(message) ==
    /\ Len(message) <= Len(log)
    /\ \A i \in DOMAIN message :
          log[Len(log) - Len(message) + i].sms_content = message[i]

\* C21: process_roster starts every attempt with an empty message and a cleared
\* flag, and an attempt only appends lines to its message; while the flag is
\* clear the message holds lines of the dates already passed in this attempt
\* only, one per date at most, in plan order and without a "Not finalised"
\* line; a roster message given to send_sms is the message of the attempt that
\* ended in Success, so it holds no line of an earlier attempt.
C21_FreshMessage ==
    /\ []((InAttempt /\ ~not_finalised_found) =>
            /\ LinesOfPlan(combined_message)
            /\ LoggedLast(combined_message)
            /\ \A i \in DOMAIN combined_message :
                  \E k \in 1..idx : combined_message[i].date = <<test_dates[k]>>
            /\ pc \in {"nav", "cell", "classify"} => Len(combined_message) < idx)
    /\ [](\A i \in RosterSends :
            /\ i = Len(sent)
            /\ pc = "exit" /\ Last(outcomes) = "Success"
            /\ sent[i].message = combined_message
            /\ LinesOfPlan(sent[i].message))
    /\ [][ /\ pc = "landing" /\ pc' = "nav" =>
                 combined_message' = <<>> /\ ~not_finalised_found'
           /\ InAttempt /\ combined_message' # combined_message =>
                 /\ pc = "classify"
                 /\ Len(combined_message') = Len(combined_message) + 1
                 /\ SubSeq(combined_message', 1, Len(combined_message)) = combined_message
                 /\ Last(combined_message').date = <<test_dates[idx]>>
         ]_vars

\* a Friday run whose first attempt read a line for Saturday and then found
\* Sunday not finalised, and whose second attempt sent its own two lines
C21_Witness ==
    /\ pc = "exit"
    /\ outcomes = <<"NotFinalized", "Success">>
    /\ Len(test_dates) = 2
    /\ Len(log) = 4
    /\ log[1].event = "SMS_SENT"
    /\ log[2].event = "SHIFT_NOT_FINALISED"
    /\ Len(sent) = 1
    /\ Len(sent[1].message) = 2
    /\ sent[1].message[1] # log[1].sms_content

-----------------------------------------------------------------------------
(* The month navigator *)

TargetLabel == MonthLabel(test_dates[idx])

\* a step of the navigator for the date at hand: the date goes on to its cell,
\* or it is skipped
NavigatorStep == pc = "nav" /\ pc' \in {"cell", "nav", "finish"}
GoesToCell == pc' = "cell"
Skipped == pc' \in {"nav", "finish"}

\* what every navigation has: the cell is looked up and classified under the
\* label of the target month; no click where the label shows the target
\* already; a date is skipped without a line; the clicks counted for the
\* other dates are left alone, and so are those of a date once it is left
NavigatorFrame ==
    /\ [](pc \in {"cell", "classify"} => calendar_label = TargetLabel)
    /\ [][ /\ (NavigatorStep /\ calendar_label = TargetLabel) =>
                 /\ GoesToCell
                 /\ clicks'[idx] = 0
                 /\ UNCHANGED calendar_label
           /\ (NavigatorStep /\ Skipped) =>
                 /\ calendar_label # TargetLabel
                 /\ idx' = idx + 1
                 /\ UNCHANGED <<combined_message, not_finalised_found, log, cell_content>>
           /\ pc \in {"nav", "cell", "classify"} =>
                 \A k \in DOMAIN clicks : (k # idx \/ pc # "nav") => clicks'[k] = clicks[k]
         ]_vars

\* C22 as stated: where the label differs from the target the Next Month link
\* is clicked exactly once for the date, whether the date then goes on to its
\* cell or is skipped.
C22_Original ==
    /\ NavigatorFrame
    /\ [][ (NavigatorStep /\ calendar_label # TargetLabel) => clicks'[idx] = 1 ]_vars

\* C22: the cell of a target date is looked up and classified only while the
\* label shows the month of the date. Where the label shows it already the
\* link is not clicked. Otherwise the link is clicked once at most for the
\* date: the date goes on to its cell only after one click that made the label
\* show the target month, and it is skipped, without a line and without
\* another click for it, after one click that did not, or after none where
\* the link was not clickable in time.
C22_Navigation ==
    /\ NavigatorFrame
    /\ [][ (NavigatorStep /\ calendar_label # TargetLabel) =>
              /\ clicks'[idx] \in {0, 1}
              /\ GoesToCell =>
                    /\ clicks'[idx] = 1
                    /\ calendar_label' = NextMonthLabel(calendar_label)
                    /\ calendar_label' = TargetLabel
              /\ clicks'[idx] = 0 => Skipped /\ UNCHANGED calendar_label
         ]_vars

\* a Friday plan over the end of the month: Saturday read without a click,
\* Sunday after one click
C22_Witness ==
    /\ pc = "classify"
    /\ idx = 2
    /\ clicks = <<0, 1>>
    /\ DateOf(test_dates[1]).month = 11
    /\ calendar_label = [month |-> 12, year |-> 2024]

\* the same plan with a link that was not clickable: Sunday skipped, no click
C22_SkipWitness ==
    /\ pc = "finish"
    /\ idx = 3
    /\ clicks = <<0, 0>>
    /\ Len(combined_message) = 1
    /\ DateOf(test_dates[2]).month = 12
    /\ calendar_label = [month |-> 11, year |-> 2024]

-----------------------------------------------------------------------------
(* SMS_SENT records and the messages sent *)

\* the SMS_SENT records that carry a content, and the send_sms calls whose
\* message has it as a line
LoggedAsSent(content) ==
    {i \in LogEvents("SMS_SENT") : log[i].sms_content = content}
SentWith(content) ==
    {s \in DOMAIN sent : \E l \in DOMAIN sent[s].message : sent[s].message[l] = content}

\* C23: when the run is over, every content logged with the event SMS_SENT was
\* given to send_sms as a line of a message, and it was logged no more often
\* than it was sent; so no attempt that ended in a retry or in a failure left
\* an SMS_SENT record whose content was not sent.
C23_LoggedIsSent ==
    pc = "exit" =>
        \A i \in LogEvents("SMS_SENT") :
            /\ SentWith(log[i].sms_content) # {}
            /\ Cardinality(LoggedAsSent(log[i].sms_content))
                  <= Cardinality(SentWith(log[i].sms_content))

====
